---- MODULE Spec2Model ----
EXTENDS Integers, Sequences, FiniteSets, TLC

(***************************************************************************)
(* Model of src.ts/disasm.ts: the opcode predicates, the BytecodeIter      *)
(* cursor and abiFromBytecode; and of the loaders of src/loaders.ts: the   *)
(* composites MultiABILoader and MultiSignatureLookup, and the loaders     *)
(* that fetch (Sourcify, Etherscan, 4byte, OpenChain).                     *)
(*                                                                         *)
(* A Uint8Array is a sequence of integers 0..255 (1-based here, 0-based in *)
(* the source: ArrGet does the shift).  JavaScript's undefined and NaN are *)
(* the two negative sentinels below; every byte, position and step of the  *)
(* program is >= 0, except step() and pos() before the first next(), which *)
(* are -1.  A string is the sequence of its characters; the bytecode       *)
(* argument is a hexadecimal text, turned into bytes by ethers' arrayify.  *)
(* The number parseInt returns is a double, kept as the sequence of the    *)
(* hexadecimal digits of its value (see parseInt16).                       *)
(*                                                                         *)
(* An async method runs until it awaits a promise and is resumed in a      *)
(* later turn of the event loop: each action is one such run.              *)
(***************************************************************************)

VARIABLES
    code,        \* the BytecodeIter object: bytecode, nextStep, nextPos, posBuffer, posBufferSize
    ret,         \* value returned by the last call of next() (Undefined before the first)
    hist,        \* history: the opcodes returned by the successful next() calls, in order
    endCalls,    \* history: number of next() calls made while hasMore() was false
    abi,         \* abiFromBytecode: the list under construction / returned
    jumps,       \* abiFromBytecode: selector -> destination, in key insertion order
    dests,       \* abiFromBytecode: byte offset -> step of every JUMPDEST seen
    notPayable,  \* abiFromBytecode: byte offset -> step of every guarded JUMPDEST
    lastPush32,  \* abiFromBytecode: immediate of the last PUSH32
    pc,          \* "iter" (cursor driven directly), "loop", "done", "error" (exception thrown),
                 \* "multi" (a call on a composite loader), "fetch" (on a fetching loader)
    multi        \* loaders.ts: the composite (class, loaders, the calls made on it, by
                 \* address), or the call in progress on a fetching loader

vars == <<code, ret, hist, endCalls, abi, jumps, dests, notPayable, lastPush32, pc, multi>>

---------------------------------------------------------------------------
(* JavaScript values *)

Undefined == -1000
NaN == -2000

IsNum(x) == x # Undefined /\ x # NaN

\* no loader is in use (the cursor and abiFromBytecode use none)
NoCall ==
    [ method  |-> "none",
      loaders |-> << >>,
      address |-> "",
      index   |-> 0,
      queried |-> << >>,
      state   |-> "pending",
      settled |-> << >> ]

\* a < b, a > b: false as soon as one side is undefined (NaN after ToNumber)
JsLt(a, b) == IsNum(a) /\ IsNum(b) /\ a < b
JsGt(a, b) == IsNum(a) /\ IsNum(b) /\ a > b
JsGe(a, b) == IsNum(a) /\ IsNum(b) /\ a >= b
JsLe(a, b) == IsNum(a) /\ IsNum(b) /\ a <= b

\* a + b, a - b on numbers: NaN as soon as one side is undefined or NaN
JsAdd(a, b) == IF IsNum(a) /\ IsNum(b) THEN a + b ELSE NaN
JsSub(a, b) == IF IsNum(a) /\ IsNum(b) THEN a - b ELSE NaN

\* arr[i] of an array or typed array: undefined outside 0..length-1
ArrGet(arr, i) == IF IsNum(i) /\ i >= 0 /\ i < Len(arr) THEN arr[i + 1] ELSE Undefined

Min(a, b) == IF a <= b THEN a ELSE b
Max(a, b) == IF a >= b THEN a ELSE b

\* ToIntegerOrInfinity followed by the clamping of %TypedArray%.prototype.slice
SliceIndex(x, len) ==
    LET n == IF IsNum(x) THEN x ELSE 0
    IN  IF n < 0 THEN Max(len + n, 0) ELSE Min(n, len)

\* Uint8Array.prototype.slice(start, end)
slice(arr, start, end) ==
    LET from == SliceIndex(start, Len(arr))
        to   == SliceIndex(end, Len(arr))
    IN  IF to <= from THEN << >> ELSE SubSeq(arr, from + 1, to)

---------------------------------------------------------------------------
(* opcodes, disasm.ts 8-21 *)

STOP == 0
EQ == 20
ISZERO == 21
CALLVALUE == 52
JUMPI == 87
JUMPDEST == 91
PUSH1 == 96
PUSH4 == 99
PUSH32 == 127
DUP1 == 128
LOG1 == 161
LOG4 == 164

pushWidthNoPlusOne(instruction) ==
    IF JsLt(instruction, PUSH1) \/ JsGt(instruction, PUSH32) THEN 0
    ELSE JsSub(instruction, PUSH1)

\* disasm.ts 24-27
pushWidth(instruction) ==
    IF JsLt(instruction, PUSH1) \/ JsGt(instruction, PUSH32) THEN 0
    ELSE JsAdd(JsSub(instruction, PUSH1), 1)

\* disasm.ts 29-31
isPush(instruction) ==
    ~(JsLt(instruction, PUSH1) \/ JsGt(instruction, PUSH32))

isLogAboveLog1(instruction) ==
    JsGt(instruction, LOG1) /\ JsLe(instruction, LOG4)

\* disasm.ts 33-35
isLog(instruction) ==
    JsGe(instruction, LOG1) /\ JsLe(instruction, LOG4)

---------------------------------------------------------------------------
(* hexadecimal text: a string is the sequence of its characters *)

HexDigits == << "0", "1", "2", "3", "4", "5", "6", "7",
                "8", "9", "a", "b", "c", "d", "e", "f" >>

HexDigitsUpper == << "0", "1", "2", "3", "4", "5", "6", "7",
                     "8", "9", "A", "B", "C", "D", "E", "F" >>

\* the value of a hexadecimal digit, written in either case
HexValue(c) ==
    IF \E i \in 1..16 : HexDigits[i] = c
    THEN (CHOOSE i \in 1..16 : HexDigits[i] = c) - 1
    ELSE (CHOOSE i \in 1..16 : HexDigitsUpper[i] = c) - 1

IsHexDigit(c) == \E i \in 1..16 : HexDigits[i] = c \/ HexDigitsUpper[i] = c

\* ethers.utils.isHexString: "0x" and then hexadecimal digits only
isHexString(text) ==
    /\ Len(text) >= 2
    /\ text[1] = "0"
    /\ text[2] = "x"
    /\ \A i \in 3..Len(text) : IsHexDigit(text[i])

\* the option allowMissingPrefix of arrayify: "0x" is put before a string
\* that does not start with it
withPrefix(text) ==
    IF Len(text) >= 2 /\ text[1] = "0" /\ text[2] = "x" THEN text
    ELSE << "0", "x" >> \o text

\* the message of the error ethers.utils.arrayify(value, { allowMissingPrefix:
\* true }) throws for a string, "" when it throws none
arrayifyError(text) ==
    IF ~isHexString(withPrefix(text)) THEN "invalid arrayify value"
    ELSE IF Len(withPrefix(text)) % 2 = 1 THEN "hex data is odd-length"
    ELSE ""

arrayifyThrows(text) == arrayifyError(text) # ""

\* the bytes arrayify returns when it does not throw: one per pair of digits
arrayify(text) ==
    LET hex == withPrefix(text)
    IN  [ k \in 1..((Len(hex) - 2) \div 2) |->
            16 * HexValue(hex[2 * k + 1]) + HexValue(hex[2 * k + 2]) ]

---------------------------------------------------------------------------
(* BytecodeIter, disasm.ts 41-124 *)

\* constructor, disasm.ts 55-64, when arrayify does not throw; bytecode is
\* the hexadecimal text, bufferSize 0 stands for an absent config.  When
\* arrayify throws there is no cursor: the text is then taken as empty
BytecodeIter(bytecode, bufferSize) ==
    [ bytecode      |-> IF arrayifyThrows(bytecode) THEN << >> ELSE arrayify(bytecode),
      nextStep      |-> 0,
      nextPos       |-> 0,
      posBufferSize |-> IF bufferSize = 0 THEN 1 ELSE bufferSize,
      posBuffer     |-> << >> ]

hasMoreAtEnd(it) == Len(it.bytecode) >= it.nextPos

\* disasm.ts 66-68
hasMore(it) == Len(it.bytecode) > it.nextPos

posBufferPushNoShift(posBuffer, posBufferSize, nextPos) ==
    Append(posBuffer, nextPos)

\* disasm.ts 76-77
posBufferPush(posBuffer, posBufferSize, nextPos) ==
    Append(IF Len(posBuffer) >= posBufferSize THEN Tail(posBuffer) ELSE posBuffer,
           nextPos)

nextCountsAtEnd(it) ==
    IF Len(it.bytecode) <= it.nextPos
    THEN [ it |-> [it EXCEPT !.nextStep = it.nextStep + 1], ret |-> STOP ]
    ELSE LET instruction == ArrGet(it.bytecode, it.nextPos)
             width       == pushWidth(instruction)
         IN  [ it  |-> [it EXCEPT
                          !.posBuffer = posBufferPush(it.posBuffer, it.posBufferSize, it.nextPos),
                          !.nextStep  = it.nextStep + 1,
                          !.nextPos   = it.nextPos + 1 + width],
               ret |-> instruction ]

\* disasm.ts 70-83: the cursor after the call and the value returned
next(it) ==
    IF Len(it.bytecode) <= it.nextPos
    THEN [ it |-> it, ret |-> STOP ]
    ELSE LET instruction == ArrGet(it.bytecode, it.nextPos)
             width       == pushWidth(instruction)
         IN  [ it  |-> [it EXCEPT
                          !.posBuffer = posBufferPush(it.posBuffer, it.posBufferSize, it.nextPos),
                          !.nextStep  = it.nextStep + 1,
                          !.nextPos   = it.nextPos + 1 + width],
               ret |-> instruction ]

\* disasm.ts 87-89
step(it) == it.nextStep - 1

posNoMinusOne(it) == it.nextPos

\* disasm.ts 93-95
pos(it) == it.nextPos - 1

\* disasm.ts 101-104: an absolute byte position, or a negative offset into posBuffer
resolvePos(it, posOrRelativeStep) ==
    IF posOrRelativeStep < 0
    THEN ArrGet(it.posBuffer, Len(it.posBuffer) + posOrRelativeStep)
    ELSE posOrRelativeStep

\* disasm.ts 100-106
at(it, posOrRelativeStep) ==
    ArrGet(it.bytecode, resolvePos(it, posOrRelativeStep))

valueAtCutShort(it, posOrRelativeStep) ==
    LET p           == resolvePos(it, posOrRelativeStep)
        instruction == ArrGet(it.bytecode, p)
        width       == pushWidth(instruction)
    IN  slice(it.bytecode, JsAdd(p, 1), JsAdd(p, width))

\* disasm.ts 115-123
valueAt(it, posOrRelativeStep) ==
    LET p           == resolvePos(it, posOrRelativeStep)
        instruction == ArrGet(it.bytecode, p)
        width       == pushWidth(instruction)
    IN  slice(it.bytecode, JsAdd(p, 1), JsAdd(JsAdd(p, 1), width))

valueTwoBack(it) == valueAt(it, -2)

\* disasm.ts 109-111
value(it) == valueAt(it, -1)

---------------------------------------------------------------------------
(* ethers.utils helpers and parseInt, as called in disasm.ts 154, 201-203 *)

\* ethers.utils.hexlify of a byte array: the characters "0x" and two lowercase
\* hex digits per byte (a string is the sequence of its characters)
hexlify(bytes) ==
    [ i \in 1..(2 + 2 * Len(bytes)) |->
        IF i = 1 THEN "0"
        ELSE IF i = 2 THEN "x"
        ELSE LET b == bytes[((i - 3) \div 2) + 1]
             IN  IF (i - 3) % 2 = 0 THEN HexDigits[(b \div 16) + 1]
                                    ELSE HexDigits[(b % 16) + 1] ]

\* ethers.utils.zeroPad throws "value out of range" when the value is longer
\* than the requested length
zeroPadThrows(bytes, length) == Len(bytes) > length

zeroPadNoPad(bytes, length) == bytes

\* ethers.utils.zeroPad(bytes, length) when it does not throw: the value
\* right-aligned in `length` bytes
zeroPad(bytes, length) ==
    [ i \in 1..length |->
        IF i <= length - Len(bytes) THEN 0 ELSE bytes[i - (length - Len(bytes))] ]

\* A number that parseInt returns is the sequence of the hexadecimal digits
\* (0..15) of its value, most significant first and without leading zeros, so
\* << >> is 0 and << 2, 5 >> is 37: a destination is up to 32 bytes wide and
\* the integers of TLC end at 2^31 - 1.  NaN is the sequence NumNaN.
NumNaN == << NaN >>

\* the digits from the first that is not zero on
StripZeros(ds) ==
    LET nonzero == { i \in 1..Len(ds) : ds[i] # 0 }
    IN  IF nonzero = {} THEN << >>
        ELSE SubSeq(ds, CHOOSE i \in nonzero : \A j \in nonzero : i <= j, Len(ds))

\* the binary digits of a sequence of hexadecimal digits, and back
BitsOf(ds) ==
    [ i \in 1..(4 * Len(ds)) |->
        (ds[((i - 1) \div 4) + 1] \div << 8, 4, 2, 1 >>[((i - 1) % 4) + 1]) % 2 ]

DigitsOf(bits) ==
    LET pad == (4 - (Len(bits) % 4)) % 4
        b   == [ i \in 1..pad |-> 0 ] \o bits
    IN  [ k \in 1..(Len(b) \div 4) |->
            8 * b[4 * k - 3] + 4 * b[4 * k - 2] + 2 * b[4 * k - 1] + b[4 * k] ]

\* bits + 1: the last 0 becomes 1 and the ones after it 0; a carry out of
\* the first bit lengthens the sequence
Increment(bits) ==
    LET zeros == { i \in 1..Len(bits) : bits[i] = 0 }
    IN  IF zeros = {} THEN << 1 >> \o [ i \in 1..Len(bits) |-> 0 ]
        ELSE LET last == CHOOSE i \in zeros : \A j \in zeros : j <= i
             IN  [ i \in 1..Len(bits) |->
                     IF i < last THEN bits[i] ELSE IF i = last THEN 1 ELSE 0 ]

\* the significand of a JavaScript number (an IEEE 754 double) has 53 bits
SignificandBits == 53

\* the double nearest to an integer, ties to the even significand: an integer
\* of at most 53 bits is itself; of a wider one the first 53 bits are kept,
\* rounded by the bits that follow, and the rest is zero
ToDouble(ds) ==
    LET bits == StripZeros(BitsOf(ds))
        n    == Len(bits)
    IN  IF n <= SignificandBits THEN StripZeros(ds)
        ELSE LET kept   == SubSeq(bits, 1, SignificandBits)
                 half   == bits[SignificandBits + 1] = 1
                 sticky == \E i \in (SignificandBits + 2)..n : bits[i] = 1
                 up     == half /\ (sticky \/ kept[SignificandBits] = 1)
                 m      == IF up THEN Increment(kept) ELSE kept
             IN  DigitsOf(m \o [ i \in 1..(n - SignificandBits) |-> 0 ])

\* the digits of str from the i-th character on, read after the number acc:
\* acc * 16 + digit, digit by digit, on the exact integer
ParseHexDigits(str, i, acc) ==
    IF i > Len(str) THEN acc
    ELSE StripZeros(acc \o [ k \in 1..(Len(str) - i + 1) |-> HexValue(str[i + k - 1]) ])

\* parseInt(str, 16) of a string hexlify produced: the "0x" prefix is skipped
\* and the digits are read; no digit at all gives NaN; the integer read is
\* converted to a Number, which rounds it from 2^53 on
parseInt16(str) ==
    IF Len(str) <= 2 THEN NumNaN ELSE ToDouble(ParseHexDigits(str, 3, << >>))

\* the number is an integer below 2^31, as the byte offsets and the steps
\* kept in dests and notPayable are here
IsIndex(num) == num # NumNaN /\ (Len(num) <= 7 \/ (Len(num) = 8 /\ num[1] <= 7))

\* the integer a number below 2^31 is
RECURSIVE ToInt(_)
ToInt(num) ==
    IF num = << >> THEN 0
    ELSE 16 * ToInt(SubSeq(num, 1, Len(num) - 1)) + num[Len(num)]

---------------------------------------------------------------------------
(* JavaScript objects used as maps *)

\* obj[key] of an object with number keys (dests, notPayable)
ObjGet(obj, key) == IF key \in DOMAIN obj THEN obj[key] ELSE Undefined

\* obj[num] of the same object, the key a number of parseInt: the property is
\* named by the decimal spelling of the number, so a byte offset is found by
\* the number equal to it and by no other, NaN included
NumObjGet(obj, num) == IF IsIndex(num) THEN ObjGet(obj, ToInt(num)) ELSE Undefined

\* obj[key] = val
ObjSet(obj, key, val) ==
    [ k \in (DOMAIN obj) \cup {key} |-> IF k = key THEN val ELSE obj[k] ]

\* !v
Falsy(v) == v = Undefined \/ v = NaN \/ v = 0

\* jumps has string keys: Object.keys lists them in insertion order, so the
\* object is the sequence of its [key, val] pairs
HasKey(obj, key) == \E i \in 1..Len(obj) : obj[i].key = key

StrObjGet(obj, key) ==
    IF HasKey(obj, key)
    THEN obj[CHOOSE i \in 1..Len(obj) : obj[i].key = key].val
    ELSE Undefined

StrObjSetKeepFirst(obj, key, val) ==
    IF HasKey(obj, key) THEN obj ELSE Append(obj, [key |-> key, val |-> val])

StrObjSetMoveToEnd(obj, key, val) ==
    Append(SelectSeq(obj, LAMBDA e : e.key # key), [key |-> key, val |-> val])

StrObjSet(obj, key, val) ==
    IF HasKey(obj, key)
    THEN [ i \in 1..Len(obj) |-> IF obj[i].key = key THEN [key |-> key, val |-> val]
                                                     ELSE obj[i] ]
    ELSE Append(obj, [key |-> key, val |-> val])

---------------------------------------------------------------------------
(* abiFromBytecode, disasm.ts 126-220 *)

\* disasm.ts 148
ruleE1(inst) == inst = PUSH32

\* disasm.ts 151
ruleE2(inst, last) == ~ruleE1(inst) /\ isLog(inst) /\ Len(last) > 0

\* disasm.ts 160
ruleE3(inst, last) == ~ruleE1(inst) /\ ~ruleE2(inst, last) /\ inst = JUMPDEST

\* disasm.ts 171-175
hasGuard(c, p) ==
    /\ at(c, p + 1) = CALLVALUE
    /\ at(c, p + 2) = DUP1
    /\ at(c, p + 3) = ISZERO

\* disasm.ts 194-199
matchE4(c) ==
    /\ at(c, -1) = JUMPI
    /\ isPush(at(c, -2))
    /\ at(c, -3) = EQ
    /\ isPush(at(c, -4))

ruleE4(c, inst, last) ==
    ~ruleE1(inst) /\ ~ruleE2(inst, last) /\ ~ruleE3(inst, last) /\ matchE4(c)

\* disasm.ts 201-202
selectorOf(c) == hexlify(zeroPad(valueAt(c, -4), 4))

\* disasm.ts 203
offsetDestOf(c) == parseInt16(hexlify(valueAt(c, -2)))

eventEntry(last) == [ type |-> "event", hash |-> hexlify(last) ]

\* disasm.ts 212-216
functionEntry(js, np, selector) ==
    [ type     |-> "function",
      selector |-> selector,
      payable  |-> Falsy(NumObjGet(np, StrObjGet(js, selector))) ]

\* disasm.ts 210-217
functionEntries(js, np) ==
    [ i \in 1..Len(js) |-> functionEntry(js, np, js[i].key) ]

\* the part of every iteration of the loop at disasm.ts 141-144
Advance(r) ==
    /\ pc = "loop"
    /\ hasMore(code)
    /\ code' = r.it
    /\ ret' = r.ret
    /\ hist' = Append(hist, r.ret)
    /\ UNCHANGED <<endCalls, multi>>

\* disasm.ts 148-150
StepE1 ==
    LET r == next(code) IN
    /\ Advance(r)
    /\ ruleE1(r.ret)
    /\ lastPush32' = value(r.it)
    /\ UNCHANGED <<abi, jumps, dests, notPayable, pc>>

\* disasm.ts 151-157
StepE2 ==
    LET r == next(code) IN
    /\ Advance(r)
    /\ ruleE2(r.ret, lastPush32)
    /\ abi' = Append(abi, eventEntry(lastPush32))
    /\ UNCHANGED <<jumps, dests, notPayable, lastPush32, pc>>

\* disasm.ts 160-180
StepE3 ==
    LET r == next(code) IN
    /\ Advance(r)
    /\ ruleE3(r.ret, lastPush32)
    /\ dests' = ObjSet(dests, pos(r.it), step(r.it))
    /\ notPayable' = IF hasGuard(r.it, pos(r.it))
                     THEN ObjSet(notPayable, pos(r.it), step(r.it))
                     ELSE notPayable
    /\ UNCHANGED <<abi, jumps, lastPush32, pc>>

\* disasm.ts 194-207, zeroPad returning
StepE4 ==
    LET r == next(code) IN
    /\ Advance(r)
    /\ ruleE4(r.it, r.ret, lastPush32)
    /\ ~zeroPadThrows(valueAt(r.it, -4), 4)
    /\ jumps' = StrObjSet(jumps, selectorOf(r.it), offsetDestOf(r.it))
    /\ UNCHANGED <<abi, dests, notPayable, lastPush32, pc>>

\* disasm.ts 194-201, zeroPad throwing: the exception leaves abiFromBytecode
StepE4Throw ==
    LET r == next(code) IN
    /\ Advance(r)
    /\ ruleE4(r.it, r.ret, lastPush32)
    /\ zeroPadThrows(valueAt(r.it, -4), 4)
    /\ pc' = "error"
    /\ UNCHANGED <<abi, jumps, dests, notPayable, lastPush32>>

\* an iteration in which no rule matches
StepNone ==
    LET r == next(code) IN
    /\ Advance(r)
    /\ ~ruleE1(r.ret)
    /\ ~ruleE2(r.ret, lastPush32)
    /\ ~ruleE3(r.ret, lastPush32)
    /\ ~matchE4(r.it)
    /\ UNCHANGED <<abi, jumps, dests, notPayable, lastPush32, pc>>

\* disasm.ts 210-219: the loop has ended, the functions are appended and abi returned
Finalize ==
    /\ pc = "loop"
    /\ ~hasMore(code)
    /\ abi' = abi \o functionEntries(jumps, notPayable)
    /\ pc' = "done"
    /\ UNCHANGED <<code, ret, hist, endCalls, jumps, dests, notPayable, lastPush32, multi>>

---------------------------------------------------------------------------
(* inputs of abiFromBytecode: the concatenations of at most MaxFrags fragments *)

MaxFrags == 3

Sel4 == << 46, 100, 206, 193 >>
Topic == [ i \in 1..32 |-> IF i = 32 THEN 9 ELSE 0 ]
Topic2 == [ i \in 1..32 |-> IF i = 1 THEN 1 ELSE 0 ]

\* a destination pushed by PUSH8, 2^53 + 1: the first integer that is not a
\* JavaScript number
WideDest == << 0, 32, 0, 0, 0, 0, 0, 1 >>

\* PUSHn <selector> EQ PUSH1 <dest> JUMPI, the idiom of disasm.ts 188-190
Dispatch(push, dest) == push \o << EQ, PUSH1, dest, JUMPI >>

\* single opcodes (PUSH1 and PUSH32 without their immediates, which then take the
\* bytes that follow or are cut by the end), a JUMPDEST with the guard of
\* disasm.ts 167, whole pushes, and dispatcher entries with a selector pushed
\* by PUSH4, PUSH2 and PUSH5, one of them with the destination WideDest
Frags ==
    { << EQ >>, << JUMPI >>, << JUMPDEST >>, << LOG1 >>, << PUSH1 >>, << PUSH32 >>,
      << JUMPDEST, CALLVALUE, DUP1, ISZERO >>,
      << PUSH1, 9 >>,
      << PUSH32 >> \o Topic,
      << PUSH32 >> \o Topic2 \o << LOG4 >>,
      Dispatch(<< PUSH4 >> \o Sel4, 0),
      Dispatch(<< PUSH4 >> \o Sel4, 9),
      Dispatch(<< PUSH1 + 1, 171, 205 >>, 9),
      Dispatch(<< PUSH1 + 4, 1, 2, 3, 4, 5 >>, 9),
      << PUSH4 >> \o Sel4 \o << EQ, PUSH1 + 7 >> \o WideDest \o << JUMPI >> }

RECURSIVE Flatten(_)
Flatten(ss) == IF ss = << >> THEN << >> ELSE Head(ss) \o Flatten(Tail(ss))

Bytecodes == { Flatten(fs) : fs \in UNION { [1..n -> Frags] : n \in 0..MaxFrags } }

\* texts arrayify throws on: a prefix in upper case, an odd number of digits,
\* a character that is no digit
Malformed ==
    { << "0", "X", "0", "0" >>, << "0", "x", "6", "0", "0" >>, << "0", "x", "z", "z" >> }

\* well-formed texts hexlify does not produce: no prefix, digits in upper
\* case, the empty string
OtherSpellings == { << "5", "b" >>, << "0", "x", "5", "B" >>, << >> }

\* the bytecode argument: the hexadecimal text of a bytecode, or one of the above
AbiInputs == { hexlify(b) : b \in Bytecodes } \cup Malformed \cup OtherSpellings

\* disasm.ts 127-135: the locals, and the cursor built from the text; an
\* error thrown by the constructor leaves abiFromBytecode
InitAbi ==
    /\ \E str \in AbiInputs :
          /\ code = BytecodeIter(str, 4)
          /\ pc = IF arrayifyThrows(str) THEN "error" ELSE "loop"
    /\ ret = Undefined
    /\ hist = << >>
    /\ endCalls = 0
    /\ abi = << >>
    /\ jumps = << >>
    /\ dests = << >>
    /\ notPayable = << >>
    /\ lastPush32 = << >>
    /\ multi = NoCall

NextAbi ==
    \/ StepE1
    \/ StepE2
    \/ StepE3
    \/ StepE4
    \/ StepE4Throw
    \/ StepNone
    \/ Finalize

SpecAbi == InitAbi /\ [][NextAbi]_vars

---------------------------------------------------------------------------
(* a BytecodeIter driven directly: next() is called in any state *)

MaxLen == 5
MaxBufferSize == 3
MaxEndCalls == 2

IterBytes == { STOP, JUMPI, PUSH1, PUSH1 + 2 }

IterBytecodes == UNION { [1..n -> IterBytes] : n \in 0..MaxLen }

IterInputs == { hexlify(b) : b \in IterBytecodes } \cup Malformed \cup OtherSpellings

\* new BytecodeIter(text, config): with a bufferSize, or without (0); an
\* error thrown by the constructor ends the run
InitIter ==
    /\ \E str \in IterInputs, k \in 0..MaxBufferSize :
          /\ code = BytecodeIter(str, k)
          /\ pc = IF arrayifyThrows(str) THEN "error" ELSE "iter"
    /\ ret = Undefined
    /\ hist = << >>
    /\ endCalls = 0
    /\ abi = << >>
    /\ jumps = << >>
    /\ dests = << >>
    /\ notPayable = << >>
    /\ lastPush32 = << >>
    /\ multi = NoCall

\* next() while hasMore() is true
IterNext ==
    LET r == next(code) IN
    /\ pc = "iter"
    /\ hasMore(code)
    /\ code' = r.it
    /\ ret' = r.ret
    /\ hist' = Append(hist, r.ret)
    /\ UNCHANGED <<endCalls, abi, jumps, dests, notPayable, lastPush32, pc, multi>>

\* next() while hasMore() is false
IterNextAtEnd ==
    LET r == next(code) IN
    /\ pc = "iter"
    /\ ~hasMore(code)
    /\ endCalls < MaxEndCalls
    /\ code' = r.it
    /\ ret' = r.ret
    /\ endCalls' = endCalls + 1
    /\ UNCHANGED <<hist, abi, jumps, dests, notPayable, lastPush32, pc, multi>>

NextIter ==
    \/ IterNext
    \/ IterNextAtEnd

SpecIter == InitIter /\ [][NextIter]_vars

---------------------------------------------------------------------------
(* reference disassembly, used to state the properties: computed from the   *)
(* bytecode and from the history of returned opcodes, not from the cursor   *)

RefWidth(op) == IF op \in 96..127 THEN op - 95 ELSE 0

\* start byte offset of the i-th decoded instruction (i = 1 is the first)
RECURSIVE StartOf(_, _)
StartOf(ops, i) ==
    IF i <= 1 THEN 0 ELSE StartOf(ops, i - 1) + 1 + RefWidth(ops[i - 1])

\* the start offsets of all instructions of a bytecode, decoding from offset p
RECURSIVE RefStarts(_, _)
RefStarts(bytes, p) ==
    IF p >= Len(bytes) THEN {}
    ELSE {p} \cup RefStarts(bytes, p + 1 + RefWidth(bytes[p + 1]))

\* the offsets inside the buffer that hold immediate bytes of a PUSH
RefImmediateOffsets(bytes) ==
    UNION { { q \in (s + 1)..(s + RefWidth(bytes[s + 1])) : q < Len(bytes) }
            : s \in RefStarts(bytes, 0) }

\* the immediate bytes of the i-th decoded instruction, cut by the end of the buffer
RefImm(i) ==
    LET s == StartOf(hist, i)
    IN  SubSeq(code.bytecode, s + 2, Min(s + 1 + RefWidth(hist[i]), Len(code.bytecode)))

\* the big-endian value of a byte sequence, exact, as a number (its
\* hexadecimal digits without leading zeros)
RefBigEndian(bytes) ==
    StripZeros([ i \in 1..(2 * Len(bytes)) |->
                   IF i % 2 = 1 THEN bytes[(i + 1) \div 2] \div 16
                                ELSE bytes[i \div 2] % 16 ])

RefLeftPad4(bytes) == [ i \in 1..(4 - Len(bytes)) |-> 0 ] \o bytes

\* the dispatcher idiom ends at the i-th decoded instruction, the selector
\* pushed by PUSH1..PUSH4
PatternAt(i) ==
    /\ i >= 4
    /\ i <= Len(hist)
    /\ hist[i] = JUMPI
    /\ hist[i - 1] \in 96..127
    /\ hist[i - 2] = EQ
    /\ hist[i - 3] \in 96..99

IsFunction(e) == e.type = "function"
IsEvent(e) == e.type = "event"

FunctionSelectors == { abi[i].selector : i \in { j \in 1..Len(abi) : IsFunction(abi[j]) } }

\* a JUMPDEST was decoded at byte offset d
JumpdestDecodedAt(d) == \E i \in 1..Len(hist) : hist[i] = JUMPDEST /\ StartOf(hist, i) = d

\* the bytes at d+1, d+2, d+3 are CALLVALUE, DUP1, ISZERO
GuardBytesAfter(d) ==
    /\ d + 3 < Len(code.bytecode)
    /\ code.bytecode[d + 2] = CALLVALUE
    /\ code.bytecode[d + 3] = DUP1
    /\ code.bytecode[d + 4] = ISZERO

Push32Steps == { i \in 1..Len(hist) : hist[i] = PUSH32 }

LastPush32Step == CHOOSE i \in Push32Steps : \A j \in Push32Steps : j <= i

---------------------------------------------------------------------------
(* properties of abiFromBytecode, checked under SpecAbi *)

\* C1, first half: when the four most recently decoded instructions are
\* PUSHa, EQ, PUSHb, JUMPI with a in 1..4, jumps binds the left-padded
\* immediate of the PUSH four steps back to the big-endian value of the
\* immediate of the PUSH two steps back.
C1_BindingByStep ==
    PatternAt(Len(hist)) =>
        /\ HasKey(jumps, hexlify(RefLeftPad4(RefImm(Len(hist) - 3))))
        /\ StrObjGet(jumps, hexlify(RefLeftPad4(RefImm(Len(hist) - 3))))
              = RefBigEndian(RefImm(Len(hist) - 1))

\* C1, the part of the binding that holds: the destination bound is the
\* big-endian value of the immediate when that value is below 2^52 (13
\* hexadecimal digits), and has lost its last bit for the destination 2^53 + 1.
C1_BindingBelow2p52 ==
    PatternAt(Len(hist)) =>
        LET sel  == hexlify(RefLeftPad4(RefImm(Len(hist) - 3)))
            dest == RefBigEndian(RefImm(Len(hist) - 1))
        IN  /\ HasKey(jumps, sel)
            /\ Len(dest) <= 13 => StrObjGet(jumps, sel) = dest
            /\ RefImm(Len(hist) - 1) = WideDest =>
                  StrObjGet(jumps, sel) = << 2, 0, 0, 0, 0, 0, 0, 0, 0, 0, 0, 0, 0, 0 >>

\* C1: rule E4 matches by decoded step: whenever the four most recently
\* decoded instructions are PUSHa, EQ, PUSHb, JUMPI (a in 1..4), jumps is bound
\* from the padded selector to the big-endian destination, and once the call has
\* ended the list it returned contains a function entry with that selector.
C1_MatchYieldsFunction ==
    /\ C1_BindingByStep
    /\ pc \in {"done", "error"} =>
         \A i \in 1..Len(hist) :
            PatternAt(i) =>
               /\ pc = "done"
               /\ hexlify(RefLeftPad4(RefImm(i - 3))) \in FunctionSelectors

\* C2: for every function entry of the returned list, with D the destination
\* bound to its selector, payable is false if and only if a JUMPDEST was
\* decoded at D and the bytes at D+1, D+2, D+3 are CALLVALUE, DUP1, ISZERO.
C2_PayableIffNoGuard ==
    pc = "done" =>
        \A i \in 1..Len(abi) :
            IsFunction(abi[i]) =>
                LET D == StrObjGet(jumps, abi[i].selector)
                IN  (abi[i].payable = FALSE)
                        <=> /\ IsIndex(D)
                            /\ JumpdestDecodedAt(ToInt(D))
                            /\ GuardBytesAfter(ToInt(D))

\* C3: while fewer than 4 instructions have been decoded, rule E4 never
\* matches: no binding is added to jumps.
C3_NoMatchBeforeFourSteps ==
    Len(hist) < 4 => jumps = << >>

\* C4: on a bytecode given as well-formed hexadecimal text (the constructor
\* of the cursor took it, and the scan began), abiFromBytecode raises no error.
C4_NeverThrows ==
    ~(pc = "error" /\ Len(hist) > 0)

HexChars == { HexDigits[i] : i \in 1..16 }

IsSelectorString(str) ==
    /\ Len(str) = 10
    /\ str[1] = "0"
    /\ str[2] = "x"
    /\ \A i \in 3..10 : str[i] \in HexChars

\* C5: every selector bound in jumps and every function entry of the list has
\* a selector of exactly 4 bytes, "0x" followed by 8 lowercase hex characters,
\* whatever the width of the PUSH it was read from.
C5_SelectorIsFourBytes ==
    /\ \A i \in 1..Len(jumps) : IsSelectorString(jumps[i].key)
    /\ \A i \in 1..Len(abi) : IsFunction(abi[i]) => IsSelectorString(abi[i].selector)

\* C5 witness: a list was returned with a function entry whose selector was
\* pushed by a PUSH2.
C5_Witness ==
    /\ pc = "done"
    /\ \E i \in 1..Len(hist) :
          /\ PatternAt(i)
          /\ hist[i - 3] = PUSH1 + 1
          /\ hexlify(RefLeftPad4(RefImm(i - 3))) \in FunctionSelectors

\* C10: an iteration that decodes LOG1..LOG4 appends exactly one event entry
\* whose hash is the immediate of the most recently decoded PUSH32, and leaves
\* lastPush32 as it is; if no PUSH32 was decoded before, it appends nothing.
C10_LogAppendsLastTopic ==
    [][ (pc = "loop" /\ hasMore(code) /\ code.bytecode[code.nextPos + 1] \in 161..164) =>
            IF Push32Steps # {}
            THEN /\ abi' = Append(abi, [ type |-> "event",
                                         hash |-> hexlify(RefImm(LastPush32Step)) ])
                 /\ lastPush32' = lastPush32
            ELSE abi' = abi ]_vars

\* C10 witness: two events with the same hash after a single PUSH32.
C10_Witness ==
    /\ Cardinality(Push32Steps) = 1
    /\ Len(abi) >= 2
    /\ IsEvent(abi[1])
    /\ IsEvent(abi[2])
    /\ abi[1].hash = abi[2].hash
    /\ Len(abi[1].hash) = 66

---------------------------------------------------------------------------
(* properties of BytecodeIter, checked under SpecIter *)

\* C6: after every decoded instruction, pos() is the start byte offset of
\* that instruction: the sum of 1 + pushWidth over the instructions before it.
C6_PosIsInstructionStart ==
    (pc = "iter" /\ Len(hist) > 0) => pos(code) = StartOf(hist, Len(hist))

\* C7: after m successful next() calls on a cursor of capacity K, posBuffer
\* holds the start offsets of the last min(m, K) decoded instructions, oldest
\* first, and at(-k) is the opcode returned by the k-th most recent next().
C7_RingHoldsLastStarts ==
    pc = "iter" =>
        LET m == Len(hist)
            n == Min(m, code.posBufferSize)
        IN  /\ Len(code.posBuffer) = n
            /\ \A j \in 1..n : code.posBuffer[j] = StartOf(hist, m - n + j)
            /\ \A k \in 1..n : at(code, -k) = hist[m - k + 1]

\* C7 witness: more instructions decoded than the ring holds, a PUSH among
\* the ones it holds.
C7_Witness ==
    /\ pc = "iter"
    /\ code.posBufferSize >= 2
    /\ Len(hist) > code.posBufferSize
    /\ hist[Len(hist) - 1] \in 96..127

\* C8 as claimed: nextPos is the length of the bytecode or the first byte of
\* an instruction inside the buffer, never beyond the end.
C8_NextPosInsideBuffer ==
    pc = "iter" =>
        \/ code.nextPos = Len(code.bytecode)
        \/ code.nextPos \in RefStarts(code.bytecode, 0)

\* C8 amended: nextPos is the first byte of an instruction inside the buffer,
\* or the length of the bytecode, or beyond it by the number of immediate
\* bytes that the last decoded PUSH lacks; it is never the offset of an
\* immediate byte of a PUSH.
C8_NextPosOnBoundary ==
    pc = "iter" =>
        /\ code.nextPos < Len(code.bytecode) => code.nextPos \in RefStarts(code.bytecode, 0)
        /\ code.nextPos > Len(code.bytecode) =>
              /\ Len(hist) > 0
              /\ hist[Len(hist)] \in 96..127
              /\ code.nextPos = StartOf(hist, Len(hist)) + 1 + RefWidth(hist[Len(hist)])
        /\ code.nextPos \notin RefImmediateOffsets(code.bytecode)

\* C8 witness: a PUSH cut by the end of the buffer has moved nextPos beyond it.
C8_Witness ==
    /\ pc = "iter"
    /\ code.nextPos > Len(code.bytecode)
    /\ Len(hist) >= 2

\* C9: a next() called while hasMore() is false returns STOP and changes
\* neither nextPos, nextStep nor posBuffer, so step(), pos(), at(-k) and
\* value() give what they gave before.
C9_NextAtEndChangesNothing ==
    [][ (pc = "iter" /\ ~hasMore(code)) =>
            /\ ret' = STOP
            /\ code'.nextPos = code.nextPos
            /\ code'.nextStep = code.nextStep
            /\ code'.posBuffer = code.posBuffer
            /\ step(code') = step(code)
            /\ pos(code') = pos(code)
            /\ \A k \in 1..code.posBufferSize : at(code', -k) = at(code, -k)
            /\ value(code') = value(code) ]_vars

\* C9 witness: next() was called twice at the end of a bytecode whose last
\* instruction is not STOP.
C9_Witness ==
    /\ pc = "iter"
    /\ endCalls >= 2
    /\ ret = STOP
    /\ Len(hist) > 0
    /\ hist[Len(hist)] # STOP

---------------------------------------------------------------------------
(* further properties of abiFromBytecode, checked under SpecAbi *)

IsHashString(str) ==
    /\ Len(str) = 66
    /\ str[1] = "0"
    /\ str[2] = "x"
    /\ \A i \in 3..66 : str[i] \in HexChars

\* the last decoded instruction is a PUSH32 whose immediate is cut by the
\* end of the buffer
LastPush32Truncated ==
    /\ Len(hist) > 0
    /\ hist[Len(hist)] = PUSH32
    /\ Len(RefImm(Len(hist))) < 32

\* C11: every event entry appended to the list has a hash of exactly 32
\* bytes, "0x" followed by 64 lowercase hex characters, in every state of the
\* scan and in the returned list, also when the last PUSH32 of the bytecode is
\* cut by the end of the buffer.
C11_EventHashIs32Bytes ==
    \A i \in 1..Len(abi) : IsEvent(abi[i]) => IsHashString(abi[i].hash)

\* C11 witness: a list with an event entry was returned for a bytecode whose
\* last instruction is a PUSH32 cut by the end of the buffer.
C11_Witness ==
    /\ pc = "done"
    /\ LastPush32Truncated
    /\ Len(lastPush32) < 32
    /\ \E i \in 1..Len(abi) : IsEvent(abi[i])

\* the hashes of the events of the first i decoded instructions, in decoding
\* order: one per LOG1..LOG4 decoded after a PUSH32, the immediate of the
\* latest PUSH32 before it
RECURSIVE RefEventHashes(_)
RefEventHashes(i) ==
    IF i = 0 THEN << >>
    ELSE LET before == { j \in 1..(i - 1) : hist[j] = PUSH32 }
         IN  IF hist[i] \in 161..164 /\ before # {}
             THEN Append(RefEventHashes(i - 1),
                         hexlify(RefImm(CHOOSE j \in before : \A k \in before : k <= j)))
             ELSE RefEventHashes(i - 1)

JumpsKeys(js) == [ i \in 1..Len(js) |-> js[i].key ]

SeqRange(seq) == { seq[i] : i \in 1..Len(seq) }

\* C12: the returned list is the event entries followed by the function
\* entries; the events are those of the decoded LOG instructions, in decoding
\* order, and the functions are the selectors of jumps in the order of their
\* first insertion: every write to jumps either keeps the order of its keys or
\* appends a key that was not there.
C12_EventsThenFunctionsInOrder ==
    /\ [](pc = "done" =>
            \E n \in 0..Len(abi) :
                /\ \A i \in 1..n : IsEvent(abi[i])
                /\ \A i \in (n + 1)..Len(abi) : IsFunction(abi[i])
                /\ [ i \in 1..n |-> abi[i].hash ] = RefEventHashes(Len(hist))
                /\ [ i \in 1..(Len(abi) - n) |-> abi[n + i].selector ] = JumpsKeys(jumps))
    /\ [][ \/ JumpsKeys(jumps') = JumpsKeys(jumps)
           \/ /\ Len(jumps') = Len(jumps) + 1
              /\ SubSeq(JumpsKeys(jumps'), 1, Len(jumps)) = JumpsKeys(jumps)
              /\ jumps'[Len(jumps')].key \notin SeqRange(JumpsKeys(jumps)) ]_vars

\* C12 witness: a list was returned with an event and two functions, the LOG
\* of the event decoded after both selectors were bound.
C12_Witness ==
    /\ pc = "done"
    /\ Len(abi) = 3
    /\ IsEvent(abi[1])
    /\ IsFunction(abi[2])
    /\ IsFunction(abi[3])
    /\ abi[2].selector # abi[3].selector
    /\ \E i, j, k \in 1..Len(hist) :
          /\ i < j /\ j < k
          /\ PatternAt(i) /\ PatternAt(j)
          /\ hist[k] \in 161..164
          /\ abi[2].selector = hexlify(RefLeftPad4(RefImm(i - 3)))
          /\ abi[3].selector = hexlify(RefLeftPad4(RefImm(j - 3)))

\* the selector and the destination of the idiom that ends at step i
RefSelectorAt(i) == hexlify(RefLeftPad4(RefImm(i - 3)))
RefDestAt(i) == RefBigEndian(RefImm(i - 1))

\* the steps at which the idiom matched with selector s
MatchSteps(s) == { i \in 1..Len(hist) : PatternAt(i) /\ RefSelectorAt(i) = s }

MatchedSelectors == { RefSelectorAt(i) : i \in { j \in 1..Len(hist) : PatternAt(j) } }

FirstMatch(s) == CHOOSE i \in MatchSteps(s) : \A j \in MatchSteps(s) : i <= j
LastMatch(s) == CHOOSE i \in MatchSteps(s) : \A j \in MatchSteps(s) : j <= i

EntriesOf(s) == { k \in 1..Len(abi) : IsFunction(abi[k]) /\ abi[k].selector = s }

\* C13: in the returned list, a selector matched by the idiom, once or
\* several times, has exactly one function entry; of two matched selectors the
\* one matched first comes first; payable is computed from the destination of
\* the last match of the selector.
C13_OneEntryLastWriteWins ==
    pc = "done" =>
        \A s \in MatchedSelectors :
            /\ Cardinality(EntriesOf(s)) = 1
            /\ \A k \in EntriesOf(s) :
                  /\ abi[k].payable = Falsy(NumObjGet(notPayable, RefDestAt(LastMatch(s))))
                  /\ \A t \in MatchedSelectors : \A l \in EntriesOf(t) :
                        FirstMatch(s) < FirstMatch(t) => k < l

\* C13 witness: a list was returned for a bytecode in which one selector was
\* matched twice, with a guarded destination first and an unguarded one last.
C13_Witness ==
    /\ pc = "done"
    /\ \E s \in MatchedSelectors :
          /\ FirstMatch(s) < LastMatch(s)
          /\ ~Falsy(NumObjGet(notPayable, RefDestAt(FirstMatch(s))))
          /\ Falsy(NumObjGet(notPayable, RefDestAt(LastMatch(s))))
          /\ \E k \in EntriesOf(s) : abi[k].payable

\* C18: in every state of the scan, the keys of dests are exactly the start
\* offsets of the JUMPDEST instructions decoded so far, so a 0x5b byte inside a
\* PUSH immediate is never a key, and the keys of notPayable are exactly the
\* keys p of dests whose bytes at p+1, p+2, p+3 are CALLVALUE, DUP1, ISZERO.
C18_DestsAreDecodedJumpdests ==
    /\ DOMAIN dests = { StartOf(hist, i) : i \in { j \in 1..Len(hist) : hist[j] = JUMPDEST } }
    /\ DOMAIN notPayable = { p \in DOMAIN dests : GuardBytesAfter(p) }

\* C18 witness: a guarded JUMPDEST was decoded after a 0x5b byte was skipped
\* as the immediate of a PUSH1.
C18_Witness ==
    /\ pc = "loop"
    /\ notPayable # << >>
    /\ \E q \in RefImmediateOffsets(code.bytecode) :
          /\ code.bytecode[q + 1] = JUMPDEST
          /\ q < code.nextPos
          /\ q \notin DOMAIN dests

---------------------------------------------------------------------------
(* termination of abiFromBytecode, checked under SpecAbi *)

\* C20: abiFromBytecode ends on every bytecode.  Every iteration of the
\* scan, whichever rule it takes, decodes one instruction and raises nextPos
\* by at least 1, and stays in the loop or raises; when hasMore() is false the
\* only step is the one that returns the list; nothing runs after the return
\* or the raise, and the number of iterations never exceeds the length of the
\* bytecode.
C20_ScanTerminates ==
    /\ [][ (pc = "loop" /\ hasMore(code)) =>
              /\ code'.nextPos >= code.nextPos + 1
              /\ Len(hist') = Len(hist) + 1
              /\ pc' \in {"loop", "error"} ]_vars
    /\ [][ (pc = "loop" /\ ~hasMore(code)) => pc' = "done" ]_vars
    /\ [][ pc = "loop" ]_vars
    /\ [](Len(hist) <= Len(code.bytecode))

\* C20 witness: a list was returned after fewer iterations than the bytecode
\* has bytes: a PUSH32 was decoded with its 32 immediate bytes, and the last
\* instruction, a PUSH cut by the end of the buffer, left nextPos beyond it.
C20_Witness ==
    /\ pc = "done"
    /\ Len(hist) >= 3
    /\ Len(hist) < Len(code.bytecode)
    /\ code.nextPos > Len(code.bytecode)
    /\ \E i \in 1..Len(hist) : hist[i] = PUSH32 /\ Len(RefImm(i)) = 32

---------------------------------------------------------------------------
(* further properties of BytecodeIter, checked under SpecIter *)

MaxBeyond == 2

\* the positions at or beyond the end of the bytecode that are probed
BeyondEnd == Len(code.bytecode)..(Len(code.bytecode) + MaxBeyond)

\* C16: decoding out of bounds saturates: for every position p at or beyond
\* the end of the bytecode, at(p) is 0 (STOP) and valueAt(p) is the empty
\* sequence.
C16_OutOfRangeSaturates ==
    pc = "iter" =>
        \A p \in BeyondEnd :
            /\ at(code, p) = STOP
            /\ valueAt(code, p) = << >>

\* C16, the half that holds: valueAt(p) at or beyond the end is empty
C16_ValueAtBeyondEndIsEmpty ==
    pc = "iter" => \A p \in BeyondEnd : valueAt(code, p) = << >>

\* C17: right after next() has decoded an instruction, value() is the
\* immediate of that instruction: for PUSHn the bytes that follow the opcode,
\* n of them, or fewer if and only if the buffer ends before the n-th; for an
\* instruction that is not a PUSH the empty sequence.
C17_ValueIsImmediate ==
    (pc = "iter" /\ Len(hist) > 0 /\ endCalls = 0) =>
        LET m  == Len(hist)
            op == hist[m]
            s  == StartOf(hist, m)
            n  == IF op \in 96..127 THEN op - 95 ELSE 0
            v  == value(code)
        IN  /\ Len(v) <= n
            /\ \A i \in 1..Len(v) : v[i] = code.bytecode[s + 1 + i]
            /\ Len(v) < n <=> Len(code.bytecode) < s + 1 + n

\* C17 witness: a PUSH3 was decoded at the tail with fewer than 3 bytes left,
\* after a PUSH that had all of its immediate.
C17_Witness ==
    /\ pc = "iter"
    /\ endCalls = 0
    /\ Len(hist) >= 2
    /\ hist[Len(hist)] = PUSH1 + 2
    /\ Len(value(code)) \in 1..2
    /\ hist[Len(hist) - 1] \in 96..127

---------------------------------------------------------------------------
(* loaders.ts: MultiABILoader (30-70) and MultiSignatureLookup (258-284).  *)
(* A loader of the list is given by what its promise does when awaited.    *)
(* A method of a composite is an async function: it runs until it awaits   *)
(* the promise of a loader, and is resumed in a later turn of the event    *)
(* loop; in between, other calls on the same composite run, and other code *)
(* of the program can push a loader on the list, which is a public field.  *)

MaxLoaders == 3

\* the status compared at loaders.ts 43
NotFound == 404

\* the awaited promise resolves with a list of `entries` items, resolves with
\* null, or rejects with an error of the given status
Resolves(entries) == [ kind |-> "resolve", entries |-> entries ]
ResolvesNull == [ kind |-> "null" ]
Rejects(status) == [ kind |-> "reject", status |-> status ]

Behaviours ==
    { Resolves(0), Resolves(1), ResolvesNull, Rejects(NotFound), Rejects(500) }

LoaderLists == UNION { [1..n -> Behaviours] : n \in 0..MaxLoaders }

\* the argument of a call: an address (a selector, a hash); a call is named by it
Addresses == { "0xaa", "0xbb" }

Classes == { "MultiABILoader", "MultiSignatureLookup" }

MethodsOf(class) ==
    IF class = "MultiABILoader" THEN { "getContract", "loadABI" }
    ELSE { "loadFunctions", "loadEvents" }

\* the list the loader-th loader resolves with
ListOf(loader, entries) == [ k \in 1..entries |-> [ from |-> loader, item |-> k ] ]

\* the ContractResult the loader-th loader resolves with (loaders.ts 4-12):
\* the fields the composite reads
ContractResultOf(loader, entries) ==
    [ ok |-> entries > 0, abi |-> ListOf(loader, entries) ]

\* loaders.ts 14-22
emptyContractResult == [ ok |-> FALSE, abi |-> << >> ]

\* the error a rejecting loader rejects with.  The message of an error is
\* the sequence of the parts it was put together from: + is \o
ErrorOf(behaviour) ==
    [ type |-> "Error", status |-> behaviour.status, message |-> << "rejected" >> ]

\* the error of reading `property` of `of`, which is undefined or null
TypeError(of, property) ==
    [ type |-> "TypeError", status |-> Undefined,
      message |-> << "Cannot read properties of", of, property >> ]

\* loaders.ts 45-48, 62-65
MultiABILoaderError(method, loader, address, cause) ==
    [ type    |-> "MultiABILoaderError",
      message |-> << "MultiABILoader ", method, " error: " >> \o cause.message,
      context |-> [ loader |-> loader, address |-> address ],
      cause   |-> cause ]

skipsEveryRejection(err) == TRUE

\* loaders.ts 43
skipsRejection(err) == err.status = NotFound

\* loaders.ts 60, 270, 280
nonEmpty(r) == Len(r) > 0

disasmVars == <<code, ret, hist, endCalls, abi, jumps, dests, notPayable, lastPush32, pc>>

\* the call of `method` with `address`, before it has run
NewMultiCall(method, address) ==
    [ method   |-> method,
      address  |-> address,
      index    |-> 0,        \* loaders the for-of loop has gone past
      awaiting |-> FALSE,    \* suspended at the await of loader index + 1
      queried  |-> << >>,    \* history: the loaders called, in order
      state    |-> "pending",
      settled  |-> << >>,    \* the value returned or the error thrown
      list     |-> << >> ]   \* history: the list when the call settled

\* return v
Returned(call, v) ==
    [ call EXCEPT !.awaiting = FALSE, !.state = "resolved", !.settled = << v >>,
                  !.list = multi.loaders ]

\* throw e
Thrown(call, e) ==
    [ call EXCEPT !.awaiting = FALSE, !.state = "rejected", !.settled = << e >>,
                  !.list = multi.loaders ]

\* the head of the for-of loop (loaders.ts 38, 55, 266, 276) after i loaders:
\* the next loader of the list, as it is now, is called and its promise awaited
\* (40, 57, 267, 277); past the end of the list the statement after the loop
\* returns `empty` (51, 68, 272, 282)
LoopAt(call, i, empty) ==
    IF i < Len(multi.loaders)
    THEN [ call EXCEPT !.index = i, !.awaiting = TRUE, !.queried = Append(@, i + 1) ]
    ELSE Returned([ call EXCEPT !.index = i ], empty)

\* `method` is called with an address no call was made with: it runs until
\* its first await, or returns at once on an empty list
Begin(method, empty) ==
    /\ pc = "multi"
    /\ method \in MethodsOf(multi.class)
    /\ \E address \in Addresses \ DOMAIN multi.calls :
          multi' = [ multi EXCEPT
                       !.calls = @ @@ (address :> LoopAt(NewMultiCall(method, address), 0, empty)) ]
    /\ UNCHANGED disasmVars

\* the call of `method` with `address` is suspended at an await
Awaiting(address, method) ==
    /\ pc = "multi"
    /\ address \in DOMAIN multi.calls
    /\ multi.calls[address].method = method
    /\ multi.calls[address].awaiting

\* the call goes on as `call`
Continue(address, call) ==
    /\ multi' = [ multi EXCEPT !.calls[address] = call ]
    /\ UNCHANGED disasmVars

\* MultiABILoader.getContract is called (loaders.ts 37-40, 51)
GetContractBegin == Begin("getContract", emptyContractResult)

\* loaders.ts 40-51: getContract is resumed with what the awaited loader
\* gave and runs until its next await, its return or its throw
GetContractResumed ==
    \E address \in Addresses :
        /\ Awaiting(address, "getContract")
        /\ LET call   == multi.calls[address]
               loader == call.index + 1
               b      == multi.loaders[loader]
               on     == LoopAt(call, loader, emptyContractResult)
           IN  Continue(address,
                 IF b.kind = "null" THEN on
                 ELSE IF b.kind = "resolve"
                 THEN LET r == ContractResultOf(loader, b.entries)
                      IN  IF nonEmpty(r.abi) THEN Returned(call, r) ELSE on
                 ELSE LET err == ErrorOf(b)
                      IN  IF skipsRejection(err) THEN on
                          ELSE Thrown(call, MultiABILoaderError("getContract", loader,
                                                                address, err)))

\* MultiABILoader.loadABI is called (loaders.ts 54-57, 68)
LoadABIBegin == Begin("loadABI", << >>)

\* loaders.ts 57-68: loadABI is resumed; r.length of null throws inside the
\* try, and every error caught is wrapped
LoadABIResumed ==
    \E address \in Addresses :
        /\ Awaiting(address, "loadABI")
        /\ LET call   == multi.calls[address]
               loader == call.index + 1
               b      == multi.loaders[loader]
           IN  Continue(address,
                 IF b.kind = "resolve"
                 THEN LET r == ListOf(loader, b.entries)
                      IN  IF nonEmpty(r) THEN Returned(call, r)
                          ELSE LoopAt(call, loader, << >>)
                 ELSE LET err == IF b.kind = "null" THEN TypeError("null", "length")
                                 ELSE ErrorOf(b)
                      IN  Thrown(call, MultiABILoaderError("loadABI", loader, address, err)))

\* MultiSignatureLookup.loadFunctions / loadEvents is called (loaders.ts
\* 265-267, 272; 275-277, 282)
LookupBegin(method) == Begin(method, << >>)

\* loaders.ts 267-272, 277-282: the lookup is resumed; there is no try, so a
\* rejection of the awaited lookup, or the error of r.length of null, rejects
\* the call with the same error
LookupResumed(method) ==
    \E address \in Addresses :
        /\ Awaiting(address, method)
        /\ LET call   == multi.calls[address]
               loader == call.index + 1
               b      == multi.loaders[loader]
           IN  Continue(address,
                 IF b.kind = "resolve"
                 THEN LET r == ListOf(loader, b.entries)
                      IN  IF nonEmpty(r) THEN Returned(call, r)
                          ELSE LoopAt(call, loader, << >>)
                 ELSE IF b.kind = "null" THEN Thrown(call, TypeError("null", "length"))
                 ELSE Thrown(call, ErrorOf(b)))

LoadFunctionsBegin == LookupBegin("loadFunctions")
LoadFunctionsResumed == LookupResumed("loadFunctions")
LoadEventsBegin == LookupBegin("loadEvents")
LoadEventsResumed == LookupResumed("loadEvents")

\* other code of the program pushes a loader on the list (the public field
\* loaders.ts 31, 259) while a call is suspended
LoadersPush ==
    /\ pc = "multi"
    /\ Len(multi.loaders) < MaxLoaders
    /\ \E address \in DOMAIN multi.calls : multi.calls[address].awaiting
    /\ \E b \in Behaviours : multi' = [ multi EXCEPT !.loaders = Append(@, b) ]
    /\ UNCHANGED disasmVars

\* a composite was constructed on a list of at most MaxLoaders loaders
\* (loaders.ts 33-35, 261-263); no call was made yet
InitMulti ==
    /\ \E class \in Classes, ls \in LoaderLists :
          multi = [ class |-> class, loaders |-> ls, calls |-> << >> ]
    /\ code = BytecodeIter(<< >>, 1)
    /\ ret = Undefined
    /\ hist = << >>
    /\ endCalls = 0
    /\ abi = << >>
    /\ jumps = << >>
    /\ dests = << >>
    /\ notPayable = << >>
    /\ lastPush32 = << >>
    /\ pc = "multi"

NextMulti ==
    \/ GetContractBegin
    \/ GetContractResumed
    \/ LoadABIBegin
    \/ LoadABIResumed
    \/ LoadFunctionsBegin
    \/ LoadFunctionsResumed
    \/ LoadEventsBegin
    \/ LoadEventsResumed
    \/ LoadersPush

SpecMulti == InitMulti /\ [][NextMulti]_vars

---------------------------------------------------------------------------
(* properties of the composite loaders, checked under SpecMulti *)

\* the fallback discipline as the specification states it: a loader that
\* resolves with nothing, or rejects with status 404, is passed over
RefPassedOver(b) ==
    \/ b.kind = "resolve" /\ b.entries = 0
    \/ b.kind = "null"
    \/ b.kind = "reject" /\ b.status = 404

\* the loaders of the list that are not passed over
RefDeciding(ls) == { i \in 1..Len(ls) : ~RefPassedOver(ls[i]) }

\* the last loader the discipline queries: the first that is not passed over
RefLastQueried(ls) ==
    IF RefDeciding(ls) = {} THEN Len(ls)
    ELSE CHOOSE i \in RefDeciding(ls) : \A j \in RefDeciding(ls) : i <= j

\* the calls of `methods` made so far
CallsOf(methods) ==
    { multi.calls[a] : a \in { x \in DOMAIN multi.calls : multi.calls[x].method \in methods } }

\* the list a call has gone through: the list as it is while the call is in
\* progress, as it was when the call settled afterwards
RefListOf(call) == IF call.state = "pending" THEN multi.loaders ELSE call.list

\* e is a MultiABILoaderError carrying the loader, the address and the cause
IsMultiABILoaderError(call, e, loader, cause) ==
    /\ e.type = "MultiABILoaderError"
    /\ e.context.loader = loader
    /\ e.context.address = call.address
    /\ e.cause = cause

\* e is an error of the composite that carries the source and the cause
CarriesSourceAndCause(call, e, loader, cause) ==
    /\ e.type \notin { "Error", "TypeError" }
    /\ e.context.loader = loader
    /\ e.cause = cause

\* the call follows the discipline: the loaders are queried in list order and
\* none after the first that is not passed over; a call in progress is
\* suspended at the loader it queried last; once the call has settled, that
\* loader's result was returned, or its rejection was raised wrapped, or, every
\* loader passed over, the empty value was returned
FollowsDiscipline(call, Found(_, _), empty, Wrapped(_, _, _, _)) ==
    LET ls   == RefListOf(call)
        last == RefLastQueried(ls)
    IN  /\ call.queried = [ i \in 1..Len(call.queried) |-> i ]
        /\ Len(call.queried) <= last
        /\ call.state = "pending" => call.awaiting /\ call.index + 1 = Len(call.queried)
        /\ call.state # "pending" =>
              /\ Len(call.queried) = last
              /\ IF RefDeciding(ls) = {}
                 THEN /\ call.state = "resolved"
                      /\ call.settled = << empty >>
                 ELSE IF ls[last].kind = "resolve"
                 THEN /\ call.state = "resolved"
                      /\ call.settled = << Found(last, ls[last].entries) >>
                 ELSE /\ call.state = "rejected"
                      /\ Wrapped(call, call.settled[1], last, ErrorOf(ls[last]))

\* C14: MultiABILoader.getContract queries its loaders in list order; a
\* loader that returns an empty abi (or nothing at all) or rejects with status
\* 404 is passed over; the first loader with a non-empty abi ends the call with
\* its result, any other rejection ends it with a MultiABILoaderError carrying
\* that loader, the address and the cause, and no later loader is queried; when
\* every loader was passed over the result has ok = false and an empty abi.
\* This holds of every call, whatever runs while it is suspended: another call
\* on the same composite, a push on the list.
C14_GetContractFallback ==
    pc = "multi" =>
        \A call \in CallsOf({ "getContract" }) :
            FollowsDiscipline(call, ContractResultOf, [ ok |-> FALSE, abi |-> << >> ],
                              IsMultiABILoaderError)

\* C14 witness: a getContract rejected at the third loader, after a loader
\* that rejected with 404 and one that returned an empty abi, while a second
\* getContract on the same composite was still suspended at the second loader.
C14_Witness ==
    /\ pc = "multi"
    /\ \E a, b \in DOMAIN multi.calls :
          /\ a # b
          /\ multi.calls[a].method = "getContract"
          /\ multi.calls[a].state = "rejected"
          /\ multi.calls[a].queried = << 1, 2, 3 >>
          /\ multi.calls[b].method = "getContract"
          /\ multi.calls[b].awaiting
          /\ multi.calls[b].queried = << 1, 2 >>
    /\ multi.loaders[1] = Rejects(NotFound)
    /\ multi.loaders[2] = Resolves(0)
    /\ multi.loaders[3].kind = "reject"

\* C15: MultiSignatureLookup.loadFunctions and loadEvents follow the same
\* discipline: list order, the first non-empty list returned, [] when every
\* lookup was passed over, a lookup rejecting with 404 passed over, any other
\* rejection raised as an error that carries the lookup and the cause.
C15_LookupFallback ==
    pc = "multi" =>
        \A call \in CallsOf({ "loadFunctions", "loadEvents" }) :
            FollowsDiscipline(call, ListOf, << >>, CarriesSourceAndCause)

\* C15, the half that holds: the lookups are queried in list order, the first
\* non-empty list is returned, [] when all resolve with an empty list, and the
\* call rejects at the first lookup that rejects or resolves with null, with
\* the error of that lookup as it is.
C15_LookupFirstNonEmpty ==
    pc = "multi" =>
        \A call \in CallsOf({ "loadFunctions", "loadEvents" }) :
            LET ls      == RefListOf(call)
                nonskip == { i \in 1..Len(ls) : ls[i] # Resolves(0) }
                last    == IF nonskip = {} THEN Len(ls)
                           ELSE CHOOSE i \in nonskip : \A j \in nonskip : i <= j
            IN  /\ call.queried = [ i \in 1..Len(call.queried) |-> i ]
                /\ Len(call.queried) <= last
                /\ call.state # "pending" =>
                      /\ Len(call.queried) = last
                      /\ call.settled =
                            IF nonskip = {} THEN << << >> >>
                            ELSE IF ls[last].kind = "resolve"
                                 THEN << ListOf(last, ls[last].entries) >>
                            ELSE IF ls[last].kind = "null"
                                 THEN << TypeError("null", "length") >>
                                 ELSE << ErrorOf(ls[last]) >>

\* C19: MultiABILoader.loadABI follows the discipline: list order, the first
\* non-empty ABI returned, a loader rejecting with 404 passed over, any other
\* rejection raised as a MultiABILoaderError carrying the loader, the address
\* and the cause, [] when every loader was passed over.
C19_LoadABIFallback ==
    pc = "multi" =>
        \A call \in CallsOf({ "loadABI" }) :
            FollowsDiscipline(call, ListOf, << >>, IsMultiABILoaderError)

---------------------------------------------------------------------------
(* loaders.ts: the loaders that fetch, SourcifyABILoader (149-247),        *)
(* EtherscanABILoader (75-135), FourByteSignatureLookup (287-309) and      *)
(* OpenChainSignatureLookup (315-339).  fetchJSON is given by what its     *)
(* promise does: it resolves with the parsed body or rejects with an error *)
(* that has a message and, for an HTTP failure, a status.  A method runs   *)
(* until it awaits a promise and is resumed in a later turn of the event   *)
(* loop: stage says where the call is suspended.                           *)

\* a call of `method` with `address` (a selector, a hash) on a loader built
\* with `config`; the k-th fetchJSON of the call will answer responses[k]
NewCall(method, config, address, responses) ==
    [ method    |-> method,
      config    |-> config,
      address   |-> address,
      responses |-> responses,
      stage     |-> "start",   \* "start": called, not run yet; then the await it is at
      requests  |-> << >>,      \* history: the urls fetchJSON was called with
      loaded    |-> << >>,      \* how the promise of load() settled, once it has
      state     |-> "pending",
      settled   |-> << >> ]

\* the error a failing fetchJSON rejects with
FetchError(b) == [ type |-> "Error", status |-> b.status, message |-> << b.message >> ]

\* the call of `method` is at `stage`
AtStage(method, stage) ==
    /\ pc = "fetch"
    /\ multi.method = method
    /\ multi.state = "pending"
    /\ multi.stage = stage

\* fetchJSON(url) is called and its promise awaited: the call is suspended at `stage`
Requested(url, stage) ==
    [ multi EXCEPT !.requests = Append(@, url), !.stage = stage ]

\* return v
Resolve(m, v) == multi' = [ m EXCEPT !.state = "resolved", !.settled = << v >> ]

\* throw e
Reject(m, e) == multi' = [ m EXCEPT !.state = "rejected", !.settled = << e >> ]

\* utils addressWithChecksum, called at loaders.ts 158: the same address in
\* its checksummed spelling
addressWithChecksum(address) == [ checksummed |-> address ]

isSourcifyNotFoundByStatusOnly(error) == error.status = NotFound

\* loaders.ts 140-146
isSourcifyNotFound(error) ==
    error.message = << "Failed to fetch" >> \/ error.status = NotFound

\* loaders.ts 162, 186
sourcifyUrl(index, chainId, address) ==
    [ host |-> "repo.sourcify.dev", index |-> index, chainId |-> chainId,
      address |-> address ]

\* loaders.ts 176-179, 200-203, 222-225, 237-240
SourcifyABILoaderError(method, address, url, cause) ==
    [ type    |-> "SourcifyABILoaderError",
      message |-> << "SourcifyABILoader ", method, " error: " >> \o cause.message,
      context |-> [ address |-> address, url |-> url ],
      cause   |-> cause ]

\* what a request to repo.sourcify.dev can do: metadata.json with an abi of
\* 0 or 1 entries, a JSON body without `output`, or a rejection
SourcifyResponses ==
    { [ kind |-> "metadata", entries |-> 0 ],
      [ kind |-> "metadata", entries |-> 1 ],
      [ kind |-> "malformed" ],
      [ kind |-> "reject", status |-> NotFound, message |-> "Not Found" ],
      [ kind |-> "reject", status |-> Undefined, message |-> "Failed to fetch" ],
      [ kind |-> "reject", status |-> 500, message |-> "Internal Server Error" ] }

\* the url of a request of SourcifyABILoader to `index` (loaders.ts 162, 186,
\* 217, 232)
SourcifyUrlOf(index) ==
    sourcifyUrl(index, multi.config.chainId, addressWithChecksum(multi.address))

\* loaders.ts 156-164: getContract is called; it runs until it awaits the
\* request to full_match
SourcifyGetContract ==
    /\ AtStage("sourcify.getContract", "start")
    /\ multi' = Requested(SourcifyUrlOf("full_match"), "full_match")
    /\ UNCHANGED disasmVars

\* what a block of getContract / loadABI does when resumed with the answer b
\* to its request: the result is returned, for getContract a ContractResult
\* with ok true (loaders.ts 165-173, 189-197), for loadABI the abi of the
\* metadata (219, 234); an error that is not a not-found is thrown wrapped
\* (174-180, 198-204; 220-226, 235-241), and after a not-found the method goes
\* on after the block (`after` is the call then)
SourcifyBlock(method, k, index, after) ==
    /\ AtStage(method, index)
    /\ LET address == addressWithChecksum(multi.address)
           name    == IF method = "sourcify.getContract" THEN "getContract" ELSE "loadABI"
           url     == SourcifyUrlOf(index)
           b       == multi.responses[k]
       IN  IF b.kind = "metadata"
           THEN Resolve(multi, IF method = "sourcify.getContract"
                               THEN [ ok |-> TRUE, abi |-> ListOf(k, b.entries) ]
                               ELSE ListOf(k, b.entries))
           ELSE LET err == IF b.kind = "malformed" THEN TypeError("undefined", "abi")
                           ELSE FetchError(b)
                IN  IF ~isSourcifyNotFound(err)
                    THEN Reject(multi, SourcifyABILoaderError(name, address, url, err))
                    ELSE after
    /\ UNCHANGED disasmVars

\* loaders.ts 164-186: resumed with the answer of full_match; after a
\* not-found the request to partial_match is made and awaited
SourcifyFullMatch ==
    SourcifyBlock("sourcify.getContract", 1, "full_match",
                  multi' = Requested(SourcifyUrlOf("partial_match"), "partial_match"))

\* loaders.ts 188-208: resumed with the answer of partial_match; after a
\* not-found the empty result is returned
SourcifyPartialMatch ==
    SourcifyBlock("sourcify.getContract", 2, "partial_match",
                  Resolve(multi, emptyContractResult))

\* loaders.ts 211-219: SourcifyABILoader.loadABI is called; it runs until it
\* awaits the request to full_match
SourcifyLoadABI ==
    /\ AtStage("sourcify.loadABI", "start")
    /\ multi' = Requested(SourcifyUrlOf("full_match"), "full_match")
    /\ UNCHANGED disasmVars

\* loaders.ts 219-234: resumed with the answer of full_match; after a
\* not-found the request to partial_match is made and awaited
SourcifyLoadABIFullMatch ==
    SourcifyBlock("sourcify.loadABI", 1, "full_match",
                  multi' = Requested(SourcifyUrlOf("partial_match"), "partial_match"))

\* loaders.ts 234-245: resumed with the answer of partial_match; after a
\* not-found [] is returned
SourcifyLoadABIPartialMatch ==
    SourcifyBlock("sourcify.loadABI", 2, "partial_match", Resolve(multi, << >>))

\* loaders.ts 152-154: chainId is 1 unless configured
SourcifyConfig(chainId) == [ chainId |-> IF chainId = Undefined THEN 1 ELSE chainId ]

SourcifyCalls ==
    { NewCall(method, SourcifyConfig(Undefined), a, rs) :
        method \in { "sourcify.getContract", "sourcify.loadABI" },
        a \in Addresses, rs \in [1..2 -> SourcifyResponses] }

\* loaders.ts 79-83: the default baseURL; an apiKey that is not given is
\* the empty string here (both are falsy at line 87)
EtherscanConfig(apiKey, baseURL) ==
    [ apiKey  |-> apiKey,
      baseURL |-> IF baseURL = "" THEN "https://api.etherscan.io/api" ELSE baseURL ]

\* loaders.ts 86-87, 115-116
etherscanUrl(config, action, address) ==
    [ base |-> config.baseURL, action |-> action, address |-> address ]
      @@ (IF config.apiKey # "" THEN [ apikey |-> config.apiKey ] ELSE << >>)

\* loaders.ts 107-110, 129-132
EtherscanABILoaderError(method, url, address, cause) ==
    [ type    |-> "EtherscanABILoaderError",
      message |-> << "EtherscanABILoader ", method, " error: " >> \o cause.message,
      context |-> [ url |-> url, address |-> address ],
      cause   |-> cause ]

isNeverNotVerified(r) == FALSE

\* loaders.ts 92, 122
isNotVerified(r) == r.result = "Contract source code not verified"

\* what a request to the Etherscan API can do: status "0" with a message as
\* result; status "1" with, for getsourcecode, a list of sources whose ABI is
\* a JSON text, valid or not, and for getabi, a result that is the JSON text
\* of a list of 0 or 1 entries, or no JSON; or a rejection (HTTP failure, a
\* body that is not JSON)
EtherscanResponses(action) ==
    { [ kind |-> "json", status |-> "0", result |-> "Contract source code not verified" ],
      [ kind |-> "json", status |-> "0", result |-> "Max rate limit reached" ],
      [ kind |-> "reject", status |-> NotFound, message |-> "Not Found" ],
      [ kind |-> "reject", status |-> 500, message |-> "Internal Server Error" ],
      [ kind |-> "reject", status |-> Undefined, message |-> "Unexpected token < in JSON" ] }
    \cup
    (IF action = "getsourcecode"
     THEN { [ kind |-> "json", status |-> "1", sources |-> 1, validABI |-> TRUE ],
            [ kind |-> "json", status |-> "1", sources |-> 1, validABI |-> FALSE ],
            [ kind |-> "json", status |-> "1", sources |-> 0, validABI |-> TRUE ] }
     ELSE { [ kind |-> "json", status |-> "1", entries |-> 1, validABI |-> TRUE ],
            [ kind |-> "json", status |-> "1", entries |-> 0, validABI |-> TRUE ],
            [ kind |-> "json", status |-> "1", entries |-> 0, validABI |-> FALSE ] })

\* the error JSON.parse throws
SyntaxError ==
    [ type |-> "SyntaxError", status |-> Undefined,
      message |-> << "Unexpected token in JSON" >> ]

\* loaders.ts 85-90: EtherscanABILoader.getContract is called; it builds the
\* url and runs until it awaits the request
EtherscanGetContract ==
    /\ AtStage("etherscan.getContract", "start")
    /\ multi' = Requested(etherscanUrl(multi.config, "getsourcecode", multi.address), "fetch")
    /\ UNCHANGED disasmVars

\* loaders.ts 90-111: getContract is resumed with the answer of the request
EtherscanGetContractResumed ==
    /\ AtStage("etherscan.getContract", "fetch")
    /\ LET url == etherscanUrl(multi.config, "getsourcecode", multi.address)
           r   == multi.responses[1]
           m   == multi
           Wrapped(err) == EtherscanABILoaderError("getContract", url, multi.address, err)
       IN  IF r.kind = "reject"
           THEN Reject(m, Wrapped(FetchError(r)))
           ELSE IF r.status = "0"
           THEN IF isNotVerified(r)
                THEN Resolve(m, emptyContractResult)
                ELSE Reject(m, Wrapped([ type |-> "Error", status |-> Undefined,
                                         message |-> << r.result >> ]))
           ELSE IF r.sources = 0
           THEN Reject(m, Wrapped(TypeError("undefined", "ABI")))
           ELSE IF ~r.validABI
           THEN Reject(m, Wrapped(SyntaxError))
           ELSE Resolve(m, [ ok |-> TRUE, abi |-> ListOf(1, 1) ])
    /\ UNCHANGED disasmVars

\* loaders.ts 114-119: EtherscanABILoader.loadABI is called; it builds the
\* url and runs until it awaits the request
EtherscanLoadABI ==
    /\ AtStage("etherscan.loadABI", "start")
    /\ multi' = Requested(etherscanUrl(multi.config, "getabi", multi.address), "fetch")
    /\ UNCHANGED disasmVars

\* loaders.ts 119-133: loadABI is resumed with the answer of the request:
\* [] for a contract that is not verified, the parsed result, or the error
\* of the status, of the parsing or of the request, wrapped
EtherscanLoadABIResumed ==
    /\ AtStage("etherscan.loadABI", "fetch")
    /\ LET url == etherscanUrl(multi.config, "getabi", multi.address)
           r   == multi.responses[1]
           m   == multi
           Wrapped(err) == EtherscanABILoaderError("loadABI", url, multi.address, err)
       IN  IF r.kind = "reject"
           THEN Reject(m, Wrapped(FetchError(r)))
           ELSE IF r.status = "0"
           THEN IF isNotVerified(r)
                THEN Resolve(m, << >>)
                ELSE Reject(m, Wrapped([ type |-> "Error", status |-> Undefined,
                                         message |-> << r.result >> ]))
           ELSE IF ~r.validABI
           THEN Reject(m, Wrapped(SyntaxError))
           ELSE Resolve(m, ListOf(1, r.entries))
    /\ UNCHANGED disasmVars

EtherscanCalls ==
    { NewCall("etherscan.getContract", EtherscanConfig(k, u), a, << r >>) :
        k \in { "", "KEY" }, u \in { "", "https://api.bscscan.com/api" },
        a \in Addresses, r \in EtherscanResponses("getsourcecode") }
    \cup
    { NewCall("etherscan.loadABI", EtherscanConfig(k, u), a, << r >>) :
        k \in { "", "KEY" }, u \in { "", "https://api.bscscan.com/api" },
        a \in Addresses, r \in EtherscanResponses("getabi") }

\* loaders.ts 303, 307, 331, 336: the url of a lookup of `key` (a selector
\* or a hash) in the function or event directory of `host`
lookupUrl(host, directory, key) == [ host |-> host, directory |-> directory, key |-> key ]

\* "function" for loadFunctions, "event" for loadEvents
DirectoryOf(method) ==
    IF method \in { "fourbyte.loadFunctions", "openchain.loadFunctions" }
    THEN "function" ELSE "event"

\* loaders.ts 295-298, 323-326
LookupError(class, url, cause) ==
    [ type    |-> IF class = "FourByteSignatureLookup"
                  THEN "FourByteSignatureLookupError"
                  ELSE "OpenChainSignatureLookupError",
      message |-> << class, " load error: " >> \o cause.message,
      context |-> [ url |-> url ],
      cause   |-> cause ]

\* the signatures a directory answers with
SignaturesOf(entries) == [ k \in 1..entries |-> [ signature |-> k ] ]

\* what a request to 4byte.directory can do: a body with `results` (0 or 1
\* signatures), a body without it, or a rejection
FourByteResponses ==
    { [ kind |-> "json", hasResults |-> TRUE, entries |-> 0 ],
      [ kind |-> "json", hasResults |-> TRUE, entries |-> 1 ],
      [ kind |-> "json", hasResults |-> FALSE, entries |-> 0 ],
      [ kind |-> "reject", status |-> NotFound, message |-> "Not Found" ],
      [ kind |-> "reject", status |-> 500, message |-> "Internal Server Error" ],
      [ kind |-> "reject", status |-> Undefined, message |-> "Failed to fetch" ] }

\* the promise of load() resolves with v, rejects with e
LoadResolved(v) ==
    multi' = [ multi EXCEPT !.stage = "loaded", !.loaded = << [ ok |-> TRUE, value |-> v ] >> ]

LoadRejected(e) ==
    multi' = [ multi EXCEPT !.stage = "loaded", !.loaded = << [ ok |-> FALSE, value |-> e ] >> ]

\* loaders.ts 301-308, 288-290: FourByteSignatureLookup.loadFunctions /
\* loadEvents is called; it calls load(url), which runs until it awaits the
\* request, and returns the promise of load()
FourByteCalled(method) ==
    /\ AtStage(method, "start")
    /\ multi' = Requested(lookupUrl("www.4byte.directory", DirectoryOf(method), multi.address),
                          "fetch")
    /\ UNCHANGED disasmVars

\* loaders.ts 290-299: load() is resumed with the answer of the request
FourByteLoad(method) ==
    /\ AtStage(method, "fetch")
    /\ LET url == lookupUrl("www.4byte.directory", DirectoryOf(method), multi.address)
           r   == multi.responses[1]
       IN  IF r.kind = "json"
           THEN IF ~r.hasResults THEN LoadResolved(<< >>)
                ELSE LoadResolved(SignaturesOf(r.entries))
           ELSE LET err == FetchError(r)
                IN  IF err.status = NotFound THEN LoadResolved(<< >>)
                    ELSE LoadRejected(LookupError("FourByteSignatureLookup", url, err))
    /\ UNCHANGED disasmVars

\* loaders.ts 303, 307: the promise the method returned settles as the
\* promise of load() did
FourByteSettled(method) ==
    /\ AtStage(method, "loaded")
    /\ IF multi.loaded[1].ok THEN Resolve(multi, multi.loaded[1].value)
                             ELSE Reject(multi, multi.loaded[1].value)
    /\ UNCHANGED disasmVars

FourByteLoadFunctions == FourByteCalled("fourbyte.loadFunctions")
FourByteLoadFunctionsLoad == FourByteLoad("fourbyte.loadFunctions")
FourByteLoadFunctionsSettled == FourByteSettled("fourbyte.loadFunctions")
FourByteLoadEvents == FourByteCalled("fourbyte.loadEvents")
FourByteLoadEventsLoad == FourByteLoad("fourbyte.loadEvents")
FourByteLoadEventsSettled == FourByteSettled("fourbyte.loadEvents")

\* what a request to api.openchain.xyz can do: a body with ok true and, under
\* result, the looked-up key bound to 1 signature or to null (0), a body with
\* ok false, or a rejection
OpenChainResponses ==
    { [ kind |-> "json", ok |-> TRUE, entries |-> 0 ],
      [ kind |-> "json", ok |-> TRUE, entries |-> 1 ],
      [ kind |-> "json", ok |-> FALSE, entries |-> 0 ],
      [ kind |-> "reject", status |-> NotFound, message |-> "Not Found" ],
      [ kind |-> "reject", status |-> 500, message |-> "Internal Server Error" ],
      [ kind |-> "reject", status |-> Undefined, message |-> "Failed to fetch" ] }

\* loaders.ts 330-331, 335-336, 316-318: OpenChainSignatureLookup
\* loadFunctions / loadEvents is called; it calls load(url), which runs until
\* it awaits the request, and awaits the promise of load()
OpenChainCalled(method) ==
    /\ AtStage(method, "start")
    /\ multi' = Requested(lookupUrl("api.openchain.xyz", DirectoryOf(method), multi.address),
                          "fetch")
    /\ UNCHANGED disasmVars

\* the body load() resolves with: under result, the key bound to `entries` items
BodyOf(entries) == [ ok |-> TRUE, result |-> SignaturesOf(entries) ]

\* loaders.ts 318-327: load() is resumed with the answer of the request; it
\* gives back the body, or [] after a 404
OpenChainLoad(method) ==
    /\ AtStage(method, "fetch")
    /\ LET url == lookupUrl("api.openchain.xyz", DirectoryOf(method), multi.address)
           r   == multi.responses[1]
       IN  IF r.kind = "json" /\ r.ok
           THEN LoadResolved(BodyOf(r.entries))
           ELSE LET err == IF r.kind = "json"
                           THEN [ type |-> "Error", status |-> Undefined,
                                  message |-> << "OpenChain API bad response: ", "JSON.stringify(r)" >> ]
                           ELSE FetchError(r)
                IN  IF err.status = NotFound
                    THEN LoadResolved(<< >>)
                    ELSE LoadRejected(LookupError("OpenChainSignatureLookup", url, err))
    /\ UNCHANGED disasmVars

\* loaders.ts 331-332, 336-337: the method is resumed with what load() gave;
\* it reads r.result.function[selector] (r.result.event[hash]) outside any
\* try, and r.result of [] is undefined
OpenChainResumed(method) ==
    /\ AtStage(method, "loaded")
    /\ LET r == multi.loaded[1]
       IN  IF ~r.ok THEN Reject(multi, r.value)
           ELSE IF r.value = << >>
           THEN Reject(multi, TypeError("undefined", DirectoryOf(method)))
           ELSE Resolve(multi, r.value.result)
    /\ UNCHANGED disasmVars

OpenChainLoadFunctions == OpenChainCalled("openchain.loadFunctions")
OpenChainLoadFunctionsLoad == OpenChainLoad("openchain.loadFunctions")
OpenChainLoadFunctionsResumed == OpenChainResumed("openchain.loadFunctions")
OpenChainLoadEvents == OpenChainCalled("openchain.loadEvents")
OpenChainLoadEventsLoad == OpenChainLoad("openchain.loadEvents")
OpenChainLoadEventsResumed == OpenChainResumed("openchain.loadEvents")

LookupCalls ==
    { NewCall(method, << >>, a, << r >>) :
        method \in { "fourbyte.loadFunctions", "fourbyte.loadEvents" },
        a \in Addresses, r \in FourByteResponses }
    \cup
    { NewCall(method, << >>, a, << r >>) :
        method \in { "openchain.loadFunctions", "openchain.loadEvents" },
        a \in Addresses, r \in OpenChainResponses }

\* a method of a fetching loader was called and has not run yet
InitFetch ==
    /\ multi \in SourcifyCalls \cup EtherscanCalls \cup LookupCalls
    /\ code = BytecodeIter(<< >>, 1)
    /\ ret = Undefined
    /\ hist = << >>
    /\ endCalls = 0
    /\ abi = << >>
    /\ jumps = << >>
    /\ dests = << >>
    /\ notPayable = << >>
    /\ lastPush32 = << >>
    /\ pc = "fetch"

NextFetch ==
    \/ SourcifyGetContract
    \/ SourcifyFullMatch
    \/ SourcifyPartialMatch
    \/ EtherscanGetContract
    \/ EtherscanGetContractResumed
    \/ SourcifyLoadABI
    \/ SourcifyLoadABIFullMatch
    \/ SourcifyLoadABIPartialMatch
    \/ EtherscanLoadABI
    \/ EtherscanLoadABIResumed
    \/ FourByteLoadFunctions
    \/ FourByteLoadFunctionsLoad
    \/ FourByteLoadFunctionsSettled
    \/ FourByteLoadEvents
    \/ FourByteLoadEventsLoad
    \/ FourByteLoadEventsSettled
    \/ OpenChainLoadFunctions
    \/ OpenChainLoadFunctionsLoad
    \/ OpenChainLoadFunctionsResumed
    \/ OpenChainLoadEvents
    \/ OpenChainLoadEventsLoad
    \/ OpenChainLoadEventsResumed

SpecFetch == InitFetch /\ [][NextFetch]_vars

---------------------------------------------------------------------------
(* properties of the fetching loaders, checked under SpecFetch *)

\* a request failed as not-found: status 404 or the message "Failed to fetch"
RefNotFoundFailure(b) ==
    b.kind = "reject" /\ (b.status = 404 \/ b.message = "Failed to fetch")

\* a request succeeded with a metadata.json
RefSucceeded(b) == b.kind = "metadata"

\* the urls of the two indexes for the address of the call
RefFullUrl == sourcifyUrl("full_match", 1, addressWithChecksum(multi.address))
RefPartialUrl == sourcifyUrl("partial_match", 1, addressWithChecksum(multi.address))

\* the call rejected with a SourcifyABILoaderError carrying the address and url
RejectedBySourcify(url) ==
    /\ multi.state = "rejected"
    /\ multi.settled[1].type = "SourcifyABILoaderError"
    /\ multi.settled[1].context.address = addressWithChecksum(multi.address)
    /\ multi.settled[1].context.url = url

\* C21: SourcifyABILoader.getContract requests full_match first and
\* partial_match only after the full_match request failed as not-found; a
\* successful full_match answer is returned with ok = true and no second
\* request; any other failure of either request rejects at once with a
\* SourcifyABILoaderError carrying the address and the url; when both requests
\* are not-found the result has ok = false and an empty abi.
C21_SourcifyFullThenPartial ==
    (pc = "fetch" /\ multi.method = "sourcify.getContract") =>
        LET full    == multi.responses[1]
            partial == multi.responses[2]
        IN  /\ multi.requests \in { << >>, << RefFullUrl >>, << RefFullUrl, RefPartialUrl >> }
            /\ Len(multi.requests) = 2 => RefNotFoundFailure(full)
            /\ multi.state # "pending" =>
                  IF RefSucceeded(full)
                  THEN /\ multi.state = "resolved"
                       /\ multi.settled = << [ ok |-> TRUE, abi |-> ListOf(1, full.entries) ] >>
                       /\ multi.requests = << RefFullUrl >>
                  ELSE IF ~RefNotFoundFailure(full)
                  THEN /\ RejectedBySourcify(RefFullUrl)
                       /\ multi.requests = << RefFullUrl >>
                  ELSE /\ multi.requests = << RefFullUrl, RefPartialUrl >>
                       /\ IF RefSucceeded(partial)
                          THEN /\ multi.state = "resolved"
                               /\ multi.settled =
                                     << [ ok |-> TRUE, abi |-> ListOf(2, partial.entries) ] >>
                          ELSE IF RefNotFoundFailure(partial)
                          THEN /\ multi.state = "resolved"
                               /\ multi.settled = << [ ok |-> FALSE, abi |-> << >> ] >>
                          ELSE RejectedBySourcify(RefPartialUrl)

\* C21 witness: full_match failed with "Failed to fetch", partial_match was
\* requested and failed with status 500, and the call rejected.
C21_Witness ==
    /\ pc = "fetch"
    /\ multi.method = "sourcify.getContract"
    /\ multi.state = "rejected"
    /\ Len(multi.requests) = 2
    /\ multi.responses[1].kind = "reject"
    /\ multi.responses[1].message = "Failed to fetch"
    /\ multi.responses[2].kind = "reject"
    /\ multi.responses[2].status = 500

\* the fetch of the call failed with status 404 and the call has settled
SettledAfter404(methods) ==
    /\ pc = "fetch"
    /\ multi.method \in methods
    /\ multi.state # "pending"
    /\ multi.responses[1].kind = "reject"
    /\ multi.responses[1].status = 404

\* C22: when the fetch fails with status 404, OpenChainSignatureLookup
\* loadFunctions and loadEvents resolve with an empty list and do not reject,
\* as the two methods of FourByteSignatureLookup do.
C22_OpenChainEmptyOn404 ==
    SettledAfter404({ "openchain.loadFunctions", "openchain.loadEvents",
                      "fourbyte.loadFunctions", "fourbyte.loadEvents" }) =>
        /\ multi.state = "resolved"
        /\ multi.settled = << << >> >>

\* C22, the half that holds: FourByteSignatureLookup resolves with an empty
\* list after a 404
C22_FourByteEmptyOn404 ==
    SettledAfter404({ "fourbyte.loadFunctions", "fourbyte.loadEvents" }) =>
        /\ multi.state = "resolved"
        /\ multi.settled = << << >> >>

\* the url EtherscanABILoader.getContract requests for the call
RefEtherscanUrl ==
    [ base |-> multi.config.baseURL, action |-> "getsourcecode", address |-> multi.address ]
      @@ (IF multi.config.apiKey = "" THEN << >> ELSE [ apikey |-> multi.config.apiKey ])

\* the call rejected with an EtherscanABILoaderError whose context carries
\* the url and the address
RejectedByEtherscan ==
    /\ multi.state = "rejected"
    /\ multi.settled[1].type = "EtherscanABILoaderError"
    /\ multi.settled[1].context.url = RefEtherscanUrl
    /\ multi.settled[1].context.address = multi.address

\* C23: EtherscanABILoader.getContract returns the empty result, ok = false and
\* abi = [], when the response has status "0" and result "Contract source code
\* not verified"; for any other status "0" response, and for a failure of the
\* fetch or of the JSON parsing, it rejects with an EtherscanABILoaderError
\* whose context carries the url and the address and whose cause is the
\* underlying error; it returns ok = true only when the status is not "0".
C23_EtherscanGetContract ==
    (pc = "fetch" /\ multi.method = "etherscan.getContract" /\ multi.state # "pending") =>
        LET r == multi.responses[1]
        IN  /\ multi.requests = << RefEtherscanUrl >>
            /\ (r.kind = "json" /\ r.status = "0"
                  /\ r.result = "Contract source code not verified") =>
                  /\ multi.state = "resolved"
                  /\ multi.settled = << [ ok |-> FALSE, abi |-> << >> ] >>
            /\ (r.kind = "json" /\ r.status = "0"
                  /\ r.result # "Contract source code not verified") =>
                  /\ RejectedByEtherscan
                  /\ multi.settled[1].cause.type = "Error"
                  /\ multi.settled[1].cause.message = << r.result >>
            /\ r.kind = "reject" =>
                  /\ RejectedByEtherscan
                  /\ multi.settled[1].cause =
                        [ type |-> "Error", status |-> r.status, message |-> << r.message >> ]
            /\ (r.kind = "json" /\ r.status # "0" /\ r.sources > 0 /\ ~r.validABI) =>
                  /\ RejectedByEtherscan
                  /\ multi.settled[1].cause.type = "SyntaxError"
            /\ (multi.state = "resolved" /\ multi.settled[1].ok) =>
                  r.kind = "json" /\ r.status # "0"
            /\ multi.state = "rejected" => RejectedByEtherscan

\* C23 witness: a call with an apiKey was answered status "0" with another
\* result than "not verified", and rejected.
C23_Witness ==
    /\ pc = "fetch"
    /\ multi.method = "etherscan.getContract"
    /\ multi.state = "rejected"
    /\ multi.config.apiKey = "KEY"
    /\ multi.responses[1].kind = "json"
    /\ multi.responses[1].status = "0"
    /\ multi.settled[1].cause.message = << "Max rate limit reached" >>

====
